---- MODULE Spec2Model ----
(***************************************************************************)
(* State-machine model of app.py, the Streamlit bike-sharing dashboard.    *)
(*                                                                         *)
(* One run of the script is a linear walk through its sections: the cached *)
(* loader, the copy of the master table, the sidebar widgets, the filter,  *)
(* the metrics panel, four charts, the clustering stage and its two        *)
(* charts.  Every user interaction re-runs the script from the top in the  *)
(* same process; only st.cache_data's cache survives from run to run.      *)
(*                                                                         *)
(* A table keeps its rows (with the pandas index label of each row) and    *)
(* the optional cnt_cluster column.  Columns no statement below reads      *)
(* (temp, hum, windspeed, casual, registered, workingday) are left out.    *)
(*                                                                         *)
(* Arithmetic is exact: quantile cut-points are kept multiplied by 3 and   *)
(* equal-width bin edges multiplied by 3000, so that every comparison the  *)
(* library makes between a count and an edge is a comparison of integers.  *)
(***************************************************************************)
EXTENDS Integers, Sequences, FiniteSets, TLC

VARIABLES
    fileExists,   \* whether day.csv is present in the working directory
    fileRows,     \* the data rows of day.csv (static for the process)
    cache,        \* st.cache_data's entry for load_data("day.csv")
    bodyRuns,     \* how many times the body of load_data has executed
    served,       \* how this run's load_data call was answered
    pc,           \* position of the current script run
    df_raw,       \* app.py:36
    df,           \* app.py:41, 53, 54, 152, 155
    tahun,        \* app.py:47
    musim,        \* app.py:49
    metrics,      \* the four st.metric values, app.py:69-77
    charts,       \* the figures handed to st.pyplot so far in this run
    binning,      \* which binning produced cnt_cluster in this run
    message,      \* the st.error text shown in this run, if any
    fault         \* the exception that ended this run unhandled, if any

vars == <<fileExists, fileRows, cache, bodyRuns, served, pc, df_raw, df, tahun, musim,
          metrics, charts, binning, message, fault>>

----------------------------------------------------------------------------
(* Bounds of the model                                                     *)

MaxRows == 2
MaxBodyRuns == 3
MaxViewLen == 5
MaxSkewLen == 10
CodeSlack == 1

Dates == {[y |-> 2011, m |-> 1], [y |-> 2012, m |-> 7]}
CntValues == {0, 1, 2, 5}
Codes == (1 - CodeSlack)..(4 + CodeSlack)

----------------------------------------------------------------------------
(* Values                                                                  *)

NaN == "NaN"

NoTable == [loaded |-> FALSE, rows |-> <<>>, has_cluster |-> FALSE, cnt_cluster |-> <<>>]

NoMetrics == [shown |-> FALSE, count |-> 0,
              mean |-> [nan |-> TRUE, num |-> 0, den |-> 1], mean_shown |-> NaN,
              max |-> [nan |-> TRUE, v |-> 0], min |-> [nan |-> TRUE, v |-> 0]]

AllYears == [all |-> TRUE, year |-> 0]

OneYear(y) == [all |-> FALSE, year |-> y]

musim_options == <<"Spring", "Summer", "Fall", "Winter">>

\* Variant: the labels listed out of order.
cluster_labels_Swapped == <<"Rendah", "Tinggi", "Sedang">>

\* labels=["Rendah", "Sedang", "Tinggi"], app.py:152 and 158
cluster_labels == <<"Rendah", "Sedang", "Tinggi">>

Range(s) == {s[i] : i \in DOMAIN s}

----------------------------------------------------------------------------
(* Load & prep data, app.py:16-33                                          *)

season_map == [c \in 1..4 |-> musim_options[c]]

weather_map == [c \in 1..4 |->
                  <<"Clear", "Mist/Cloudy", "Light Rain/Snow", "Heavy Rain/Snow">>[c]]

\* Variant: a look-up d[k] in place of Series.map, which fails on a missing key.
SeriesMap_KeyError(d, k) == IF k \in DOMAIN d THEN d[k] ELSE "KeyError"

\* Series.map(dict): a value that is no key of the dict becomes NaN.
SeriesMap(d, k) == IF k \in DOMAIN d THEN d[k] ELSE NaN

\* One row of the frame load_data returns.  read_csv gives the rows the
\* RangeIndex 0..n-1; position i of the file becomes index label i - 1.
PrepRow(raw, i) ==
    [idx        |-> i - 1,
     dteday     |-> raw.dteday,
     season     |-> SeriesMap(season_map, raw.season),
     weathersit |-> SeriesMap(weather_map, raw.weathersit),
     month      |-> raw.dteday.m,
     year       |-> raw.dteday.y,
     cnt        |-> raw.cnt]

load_data(file) ==
    [loaded      |-> TRUE,
     rows        |-> [i \in 1..Len(file) |-> PrepRow(file[i], i)],
     has_cluster |-> FALSE,
     cnt_cluster |-> <<>>]

----------------------------------------------------------------------------
(* Terapkan filter, app.py:52-54                                           *)

RECURSIVE SelectRows(_, _, _)
\* Boolean indexing df[mask]: the rows whose mask is True, in frame order,
\* each keeping its index label.
SelectRows(rows, mask, i) ==
    IF i > Len(rows) THEN <<>>
    ELSE (IF mask[i] THEN <<rows[i]>> ELSE <<>>) \o SelectRows(rows, mask, i + 1)

\* Variant: the year selection is not applied.
FilterYear_Ignored(rows, t) == rows

\* app.py:52-53
FilterYear(rows, t) ==
    IF ~t.all THEN SelectRows(rows, [i \in DOMAIN rows |-> rows[i].year = t.year], 1)
    ELSE rows

\* app.py:54
FilterSeason(rows, m) == SelectRows(rows, [i \in DOMAIN rows |-> rows[i].season \in m], 1)

Cnt(rows) == [i \in 1..Len(rows) |-> rows[i].cnt]

----------------------------------------------------------------------------
(* Ringkasan metrik, app.py:69-77                                          *)

RECURSIVE SeqSum(_)
SeqSum(s) == IF s = <<>> THEN 0 ELSE Head(s) + SeqSum(Tail(s))

RECURSIVE SeqMax(_)
SeqMax(s) == IF Len(s) = 1 THEN s[1]
             ELSE LET m == SeqMax(Tail(s)) IN IF s[1] > m THEN s[1] ELSE m

RECURSIVE SeqMin(_)
SeqMin(s) == IF Len(s) = 1 THEN s[1]
             ELSE LET m == SeqMin(Tail(s)) IN IF s[1] < m THEN s[1] ELSE m

\* Series.mean(): NaN on an empty series, else sum / count.
SeriesMean(s) == IF s = <<>> THEN [nan |-> TRUE, num |-> 0, den |-> 1]
                 ELSE [nan |-> FALSE, num |-> SeqSum(s), den |-> Len(s)]

\* Series.max() / Series.min(): NaN on an empty series.
SeriesMax(s) == IF s = <<>> THEN [nan |-> TRUE, v |-> 0] ELSE [nan |-> FALSE, v |-> SeqMax(s)]

SeriesMin(s) == IF s = <<>> THEN [nan |-> TRUE, v |-> 0] ELSE [nan |-> FALSE, v |-> SeqMin(s)]

\* f"{x:,.0f}" of a non-negative quotient: round half to even; "nan" for NaN.
FormatMean(m) ==
    IF m.nan THEN NaN
    ELSE LET q == m.num \div m.den
             r == m.num % m.den
         IN  IF 2 * r < m.den THEN q
             ELSE IF 2 * r > m.den THEN q + 1
             ELSE IF q % 2 = 0 THEN q ELSE q + 1

\* Variant: the maximum and minimum panels show each other's value.
MetricsOf_Swapped(rows) ==
    [shown      |-> TRUE,
     count      |-> Len(rows),
     mean       |-> SeriesMean(Cnt(rows)),
     mean_shown |-> FormatMean(SeriesMean(Cnt(rows))),
     max        |-> SeriesMin(Cnt(rows)),
     min        |-> SeriesMax(Cnt(rows))]

\* The four values of the panel: len(df), mean, max and min of df["cnt"].
MetricsOf(rows) ==
    [shown      |-> TRUE,
     count      |-> Len(rows),
     mean       |-> SeriesMean(Cnt(rows)),
     mean_shown |-> FormatMean(SeriesMean(Cnt(rows))),
     max        |-> SeriesMax(Cnt(rows)),
     min        |-> SeriesMin(Cnt(rows))]

----------------------------------------------------------------------------
(* Clustering (binning quantile), app.py:151-160                           *)

NBins == 3

Abs(x) == IF x < 0 THEN -x ELSE x

Sorted(s) == SortSeq(s, LAMBDA a, b : a < b)

Distinct(bins) == \A i, j \in DOMAIN bins : i # j => bins[i] # bins[j]

\* Result of a binning call: the labels, or the exception it raised.
Raised(e) == [raised |-> TRUE, error |-> e, labels |-> <<>>]

Returned(l) == [raised |-> FALSE, error |-> "", labels |-> l]

\* Series.quantile(k/3) with linear interpolation, times 3: position
\* (n-1)k/3 in the sorted values, interpolated between its two neighbours.
Quantile3(sorted, k) ==
    LET n  == Len(sorted)
        lo == ((n - 1) * k) \div NBins
        fr == ((n - 1) * k) % NBins
        a  == sorted[lo + 1]
        b  == sorted[IF lo + 2 <= n THEN lo + 2 ELSE n]
    IN  NBins * a + fr * (b - a)

\* bins.searchsorted(x, side="left"): how many edges lie strictly below x.
SearchSortedLeft(bins, x) == Cardinality({i \in DOMAIN bins : bins[i] < x})

\* pandas _bins_to_cuts with right=True, include_lowest=True and three labels:
\* duplicate edges raise ValueError; a value gets the label of the interval
\* (edge[i], edge[i+1]] holding it, the lowest edge included; a value outside
\* every interval gets NaN.  x and bins are on the same scale.
BinsToCuts(x, bins) ==
    IF ~Distinct(bins) THEN Raised("ValueError: Bin edges must be unique")
    ELSE Returned([i \in DOMAIN x |->
            LET id == IF x[i] = bins[1] THEN 1 ELSE SearchSortedLeft(bins, x[i])
            IN  IF id = 0 \/ id = Len(bins) THEN NaN ELSE cluster_labels[id]])

\* pd.qcut(df["cnt"], q=3, labels=[...]), app.py:152.  The edges are the
\* quantiles 0, 1/3, 2/3, 1 of the values; on an empty series all four are NaN,
\* which the duplicate check rejects.  Scale: 3.
qcut(x) ==
    IF x = <<>> THEN Raised("ValueError: Bin edges must be unique")
    ELSE BinsToCuts([i \in DOMAIN x |-> NBins * x[i]],
                    [k \in 1..(NBins + 1) |-> Quantile3(Sorted(x), k - 1)])

\* The edges pd.cut computes for bins=3, times 3000 (_nbins_to_bins): three
\* equal widths over [min, max] with the lowest edge lowered by 0.1% of the
\* range; when min = max the range is first widened by 0.1% of |min| on each
\* side (by 0.001 when min = 0).
EqualWidthEdges(mn, mx) ==
    IF mn = mx
    THEN LET lo == 3000 * mn - (IF mn # 0 THEN 3 * Abs(mn) ELSE 3)
             hi == 3000 * mx + (IF mx # 0 THEN 3 * Abs(mx) ELSE 3)
         IN  [k \in 1..(NBins + 1) |-> lo + (k - 1) * ((hi - lo) \div NBins)]
    ELSE [k \in 1..(NBins + 1) |->
            3000 * mn + (k - 1) * 1000 * (mx - mn) - (IF k = 1 THEN 3 * (mx - mn) ELSE 0)]

\* pd.cut(df["cnt"], bins=3, labels=[...], include_lowest=True), app.py:155-160.
\* An empty series raises ValueError("Cannot cut empty array").
cut(x) ==
    IF x = <<>> THEN Raised("ValueError: Cannot cut empty array")
    ELSE BinsToCuts([i \in DOMAIN x |-> 3000 * x[i]],
                    EqualWidthEdges(SeqMin(x), SeqMax(x)))

\* Variant: no except clause, the error of quantile binning leaves the script.
ClusterOutcome_Unhandled(x) ==
    LET q == qcut(x)
    IN  IF ~q.raised THEN [binning |-> "qcut", fault |-> "", labels |-> q.labels]
        ELSE [binning |-> "none", fault |-> q.error, labels |-> <<>>]

\* try: qcut  except ValueError: cut.  An exception raised inside the except
\* block is not handled by it and leaves the script.
ClusterOutcome(x) ==
    LET q == qcut(x)
    IN  IF ~q.raised THEN [binning |-> "qcut", fault |-> "", labels |-> q.labels]
        ELSE LET c == cut(x)
             IN  IF ~c.raised THEN [binning |-> "cut", fault |-> "", labels |-> c.labels]
                 ELSE [binning |-> "none", fault |-> c.error, labels |-> <<>>]

----------------------------------------------------------------------------
(* Inputs                                                                  *)

SeqsUpTo(S, n) == UNION {[1..k -> S] : k \in 0..n}

\* Rows of day.csv as read_csv delivers them (before the mapping).
RawRows == [dteday : Dates, season : {1, 2, 5}, weathersit : {1}, cnt : {1, 2}]

Files == SeqsUpTo(RawRows, MaxRows)

----------------------------------------------------------------------------
(* The script, one action per step                                         *)

NotFoundText == "File 'day.csv' tidak ditemukan. Pastikan file berada di folder yang sama dengan app.py."

\* The state a script run starts from: nothing of an earlier run's namespace
\* or page is left, only the cache and the file are.
FreshRun ==
    /\ pc' = "load"
    /\ served' = "none"
    /\ df_raw' = NoTable
    /\ df' = NoTable
    /\ tahun' = AllYears
    /\ musim' = {}
    /\ metrics' = NoMetrics
    /\ charts' = <<>>
    /\ binning' = "none"
    /\ message' = ""
    /\ fault' = ""

InitWith(files) ==
    /\ fileExists \in BOOLEAN
    /\ fileRows \in (IF fileExists THEN files ELSE {<<>>})
    /\ cache = NoTable
    /\ bodyRuns = 0
    /\ served = "none"
    /\ pc = "load"
    /\ df_raw = NoTable
    /\ df = NoTable
    /\ tahun = AllYears
    /\ musim = {}
    /\ metrics = NoMetrics
    /\ charts = <<>>
    /\ binning = "none"
    /\ message = ""
    /\ fault = ""

Init == InitWith(Files)

\* Variant: the loader is not memoized.
CacheHit_Never(c) == FALSE

\* @st.cache_data: is there an entry for this function and argument?

CacheHit(c) == c.loaded

\* app.py:36, first call with the file present: the body runs (read_csv and
\* the mappings) and its result is stored.
LoadMiss ==
    /\ pc = "load"
    /\ ~CacheHit(cache)
    /\ fileExists
    /\ bodyRuns < MaxBodyRuns
    /\ bodyRuns' = bodyRuns + 1
    /\ served' = "body"
    /\ cache' = load_data(fileRows)
    /\ df_raw' = load_data(fileRows)
    /\ pc' = "copy"
    /\ UNCHANGED <<fileExists, fileRows, df, tahun, musim, metrics, charts, binning,
                   message, fault>>

\* app.py:36, a later call: the stored table is returned, the body is skipped.
LoadHit ==
    /\ pc = "load"
    /\ CacheHit(cache)
    /\ served' = "cache"
    /\ df_raw' = cache
    /\ pc' = "copy"
    /\ UNCHANGED <<fileExists, fileRows, cache, bodyRuns, df, tahun, musim, metrics,
                   charts, binning, message, fault>>

\* Variant: the handler shows the message and does not stop the run.
LoadNotFound_NoStop ==
    /\ pc = "load"
    /\ ~CacheHit(cache)
    /\ ~fileExists
    /\ bodyRuns < MaxBodyRuns
    /\ bodyRuns' = bodyRuns + 1
    /\ served' = "raised"
    /\ message' = NotFoundText
    /\ pc' = "copy"
    /\ UNCHANGED <<fileExists, fileRows, cache, df_raw, df, tahun, musim, metrics,
                   charts, binning, fault>>

\* app.py:36-39, file absent: read_csv raises FileNotFoundError inside the
\* body (nothing is stored), the handler shows st.error and st.stop() ends
\* the run.
LoadNotFound ==
    /\ pc = "load"
    /\ ~CacheHit(cache)
    /\ ~fileExists
    /\ bodyRuns < MaxBodyRuns
    /\ bodyRuns' = bodyRuns + 1
    /\ served' = "raised"
    /\ message' = NotFoundText
    /\ pc' = "stopped"
    /\ UNCHANGED <<fileExists, fileRows, cache, df_raw, df, tahun, musim, metrics,
                   charts, binning, fault>>

\* app.py:41
CopyMaster ==
    /\ pc = "copy"
    /\ df' = df_raw
    /\ pc' = "sidebar"
    /\ UNCHANGED <<fileExists, fileRows, cache, bodyRuns, served, df_raw, tahun, musim, metrics,
                   charts, binning, message, fault>>

YearOptions(rows) == {AllYears} \cup {OneYear(rows[i].year) : i \in DOMAIN rows}

\* app.py:46-49: the widgets return what the user has selected.
Sidebar ==
    /\ pc = "sidebar"
    /\ \E t \in YearOptions(df.rows), m \in SUBSET Range(musim_options) :
          /\ tahun' = t
          /\ musim' = m
    /\ pc' = "filter"
    /\ UNCHANGED <<fileExists, fileRows, cache, bodyRuns, served, df_raw, df, metrics, charts,
                   binning, message, fault>>

\* app.py:52-54
ApplyFilter ==
    /\ pc = "filter"
    /\ df' = [df EXCEPT !.rows = FilterSeason(FilterYear(df.rows, tahun), musim)]
    /\ pc' = "metrics"
    /\ UNCHANGED <<fileExists, fileRows, cache, bodyRuns, served, df_raw, tahun, musim, metrics,
                   charts, binning, message, fault>>

\* app.py:69-77
MetricsPanel ==
    /\ pc = "metrics"
    /\ metrics' = MetricsOf(df.rows)
    /\ pc' = "scatter_temp"
    /\ UNCHANGED <<fileExists, fileRows, cache, bodyRuns, served, df_raw, df, tahun, musim,
                   charts, binning, message, fault>>

\* A chart step: the figure is built from the frame and handed to st.pyplot.
\* Plotting and display belong to seaborn and the Streamlit host; a step is
\* taken to produce its figure for any frame, an empty one included.
Chart(at, name, next) ==
    /\ pc = at
    /\ charts' = Append(charts, name)
    /\ pc' = next
    /\ UNCHANGED <<fileExists, fileRows, cache, bodyRuns, served, df_raw, df, tahun, musim,
                   metrics, binning, message, fault>>

\* app.py:88-94
ScatterTemp == Chart("scatter_temp", "scatter_temp", "scatter_hum")

\* app.py:96-102
ScatterHum == Chart("scatter_hum", "scatter_hum", "boxplot")

\* app.py:116-120
BoxPlot == Chart("boxplot", "boxplot", "lineplot")

\* app.py:133-139
MonthlyTrend == Chart("lineplot", "lineplot", "cluster")

\* Variant: the run's frame is the cached object itself, so what the run does
\* to its frame is done to the master table.
ClusterAssign_Shared ==
    /\ pc = "cluster"
    /\ LET o == ClusterOutcome(Cnt(df.rows))
       IN  /\ o.fault = ""
           /\ df' = [df EXCEPT !.has_cluster = TRUE, !.cnt_cluster = o.labels]
           /\ cache' = [df EXCEPT !.has_cluster = TRUE, !.cnt_cluster = o.labels]
           /\ binning' = o.binning
    /\ pc' = "countplot"
    /\ UNCHANGED <<fileExists, fileRows, bodyRuns, served, df_raw, tahun, musim, metrics,
                   charts, message, fault>>

\* Variant: the cut-points are those of the unfiltered table; each row of the
\* view gets the label it has there.
ClusterAssign_Global ==
    /\ pc = "cluster"
    /\ LET o == ClusterOutcome(Cnt(df_raw.rows))
       IN  /\ o.fault = ""
           /\ df' = [df EXCEPT !.has_cluster = TRUE,
                                !.cnt_cluster = [i \in DOMAIN df.rows |->
                                                   o.labels[df.rows[i].idx + 1]]]
           /\ binning' = o.binning
    /\ pc' = "countplot"
    /\ UNCHANGED <<fileExists, fileRows, cache, bodyRuns, served, df_raw, tahun, musim,
                   metrics, charts, message, fault>>

\* app.py:151-160 when one of the two binnings returns: the labels become the
\* column cnt_cluster of this run's frame.
ClusterAssign ==
    /\ pc = "cluster"
    /\ LET o == ClusterOutcome(Cnt(df.rows))
       IN  /\ o.fault = ""
           /\ df' = [df EXCEPT !.has_cluster = TRUE, !.cnt_cluster = o.labels]
           /\ binning' = o.binning
    /\ pc' = "countplot"
    /\ UNCHANGED <<fileExists, fileRows, cache, bodyRuns, served, df_raw, tahun, musim, metrics,
                   charts, message, fault>>

\* app.py:151-160 when the fallback raises too: the exception leaves the
\* script and the run ends there.
ClusterRaise ==
    /\ pc = "cluster"
    /\ LET o == ClusterOutcome(Cnt(df.rows))
       IN  /\ o.fault # ""
           /\ fault' = o.fault
    /\ pc' = "crashed"
    /\ UNCHANGED <<fileExists, fileRows, cache, bodyRuns, served, df_raw, df, tahun, musim,
                   metrics, charts, binning, message>>

\* app.py:164-170
CountPlot == Chart("countplot", "countplot", "barplot")

\* app.py:172-178
BarPlot == Chart("barplot", "barplot", "done")

\* A user interaction (or a reload of the page) re-runs the script.
Rerun ==
    /\ pc \in {"done", "stopped", "crashed"}
    /\ FreshRun
    /\ UNCHANGED <<fileExists, fileRows, cache, bodyRuns>>

Stages ==
    \/ MetricsPanel
    \/ ScatterTemp
    \/ ScatterHum
    \/ BoxPlot
    \/ MonthlyTrend
    \/ ClusterAssign
    \/ ClusterRaise
    \/ CountPlot
    \/ BarPlot

Next ==
    \/ LoadMiss
    \/ LoadHit
    \/ LoadNotFound
    \/ CopyMaster
    \/ Sidebar
    \/ ApplyFilter
    \/ Stages
    \/ Rerun

Spec == Init /\ [][Next]_vars

----------------------------------------------------------------------------
(* The loader over every code: files of one row whose season and weather   *)
(* codes range over Codes, inside and outside the keys 1..4 of the maps.   *)

CodeRows == [dteday : {[y |-> 2011, m |-> 1]}, season : Codes, weathersit : Codes, cnt : {1}]

InitLoad == InitWith({<<r>> : r \in CodeRows})

SpecLoad == InitLoad /\ [][Next]_vars

----------------------------------------------------------------------------
(* The stages over every filtered view: the run is taken up right after    *)
(* the filter, the filtered frame holding any sequence of counts up to     *)
(* MaxViewLen rows, or up to MaxSkewLen rows of which all but one agree.   *)

Skewed(n, v, i, w) == [j \in 1..n |-> IF j = i THEN w ELSE v]

Views ==
    SeqsUpTo(CntValues, MaxViewLen)
      \cup {Skewed(n, v, i, w) : n \in 1..MaxSkewLen, v \in CntValues,
                                 i \in 1..MaxSkewLen, w \in CntValues}

ViewFile(x) == [i \in 1..Len(x) |->
                  [dteday |-> [y |-> 2011, m |-> 1], season |-> 1, weathersit |-> 1,
                   cnt |-> x[i]]]

InitView ==
    /\ fileExists = TRUE
    /\ fileRows \in {ViewFile(x) : x \in Views}
    /\ cache = load_data(fileRows)
    /\ bodyRuns = 1
    /\ served = "body"
    /\ pc = "metrics"
    /\ df_raw = load_data(fileRows)
    /\ df = load_data(fileRows)
    /\ tahun = AllYears
    /\ musim = Range(musim_options)
    /\ metrics = NoMetrics
    /\ charts = <<>>
    /\ binning = "none"
    /\ message = ""
    /\ fault = ""

SpecView == InitView /\ [][Stages]_vars

----------------------------------------------------------------------------
(* Properties                                                              *)

PastFilter == {"metrics", "scatter_temp", "scatter_hum", "boxplot", "lineplot",
               "cluster", "countplot", "barplot", "done", "crashed"}

PastCluster == {"countplot", "barplot", "done", "crashed"}

\* The filter condition of the Filter Stage, for one row of the master table.
Wanted(r) == (tahun.all \/ r.year = tahun.year) /\ r.season \in musim

\* C1: after the filter, a row of the loaded table is in the filtered frame
\* if and only if (the year selector is "All" or equals the row's year) and
\* the row's season is selected; the frame holds nothing else, and its rows
\* are in the order of the loaded table.
C1_FilterExact ==
    pc \in PastFilter =>
        /\ \A i \in DOMAIN cache.rows :
              (\E j \in DOMAIN df.rows : df.rows[j] = cache.rows[i]) <=> Wanted(cache.rows[i])
        /\ \A j \in DOMAIN df.rows : \E i \in DOMAIN cache.rows : df.rows[j] = cache.rows[i]
        /\ \A j, k \in DOMAIN df.rows : j < k => df.rows[j].idx < df.rows[k].idx

\* The concrete scenario of the specification, with counts 1 and 2: of a
\* 2011 Spring row and a 2012 Summer row, year 2011 and season Spring keep
\* exactly the first, and the metrics are count 1, mean = max = min.
C1_Witness ==
    /\ pc = "scatter_temp"
    /\ Len(cache.rows) = 2
    /\ cache.rows[1].year = 2011 /\ cache.rows[1].season = "Spring"
    /\ cache.rows[2].year = 2012 /\ cache.rows[2].season = "Summer"
    /\ tahun = OneYear(2011)
    /\ musim = {"Spring"}
    /\ Len(df.rows) = 1
    /\ df.rows[1] = cache.rows[1]
    /\ metrics.count = 1
    /\ metrics.mean_shown = df.rows[1].cnt
    /\ metrics.max.v = df.rows[1].cnt
    /\ metrics.min.v = df.rows[1].cnt

\* C2: a run whose filter yields zero rows completes: it does not end in an
\* unhandled exception, and once it has ended the metrics count is 0, the
\* clustering stage has finished and all six charts have been rendered.
C2_EmptyViewCompletes ==
    (pc \in PastFilter /\ df.rows = <<>>) =>
        /\ pc # "crashed"
        /\ fault = ""
        /\ pc = "done" => (metrics.count = 0 /\ df.has_cluster /\ Len(charts) = 6)

\* C3: the cached master table is never changed: whenever the cache is
\* populated it holds exactly the rows, columns and values the loader made
\* of the file, without a cluster column, whatever the runs have done to
\* their own frames.
C3_MasterUnchanged ==
    cache.loaded =>
        /\ cache = load_data(fileRows)
        /\ ~cache.has_cluster
        /\ (served \in {"body", "cache"} => df_raw = cache)

\* A later run, answered from the cache, has filtered its frame down and
\* given it the cluster column.
C3_Witness ==
    /\ served = "cache"
    /\ pc = "done"
    /\ df.has_cluster
    /\ Len(df.rows) >= 1
    /\ Len(df.rows) < Len(cache.rows)

\* C4 as stated: in any sequence of runs the body of the loader executes
\* exactly once.
C4_BodyRunsExactlyOnce == served # "none" => bodyRuns = 1

\* C4, amended: once a call of the loader has succeeded its body never
\* executes again, and every later call returns the cached table unchanged;
\* a call that fails because the file is absent stores nothing, so the body
\* executes again on the next run.
C4_BodyRunsOnceAfterSuccess ==
    [][ /\ cache.loaded => (bodyRuns' = bodyRuns /\ cache' = cache)
        /\ (cache.loaded /\ served = "none" /\ served' # "none")
              => (served' = "cache" /\ df_raw' = cache)
        /\ (~cache.loaded /\ served = "none" /\ served' # "none") => bodyRuns' = bodyRuns + 1
      ]_vars

\* A later run has been answered from the cache.
C4_Witness == served = "cache" /\ pc = "done" /\ bodyRuns = 1 /\ Len(cache.rows) = MaxRows

\* C5: when the file is absent at the loader's call, the error message is
\* shown and the run halts there: no filter, metric, chart or clustering step
\* is executed afterwards and no exception is left unhandled.
C5_MissingFileHalts ==
    (~fileExists /\ served # "none") =>
        /\ pc = "stopped"
        /\ served = "raised"
        /\ message = NotFoundText
        /\ fault = ""
        /\ ~df_raw.loaded /\ ~df.loaded
        /\ ~metrics.shown
        /\ charts = <<>>
        /\ binning = "none"

C5_Witness == pc = "stopped" /\ message = NotFoundText /\ bodyRuns = 2

Rank(l) == CASE l = "Rendah" -> 1 [] l = "Sedang" -> 2 [] l = "Tinggi" -> 3 [] OTHER -> 0

\* C6: for every non-empty filtered view the clustering stage returns, by
\* quantile binning or by the equal-width fallback, and gives every row
\* exactly one of the three labels; a row with a smaller count never has a
\* higher cluster rank than a row with a larger count.
C6_ClusterTotalMonotone ==
    (pc \in PastCluster /\ df.rows # <<>>) =>
        /\ pc # "crashed"
        /\ df.has_cluster
        /\ binning \in {"qcut", "cut"}
        /\ DOMAIN df.cnt_cluster = DOMAIN df.rows
        /\ \A i \in DOMAIN df.rows : Rank(df.cnt_cluster[i]) \in 1..3
        /\ \A i, j \in DOMAIN df.rows :
              df.rows[i].cnt < df.rows[j].cnt
                 => Rank(df.cnt_cluster[i]) <= Rank(df.cnt_cluster[j])

\* Quantile binning has succeeded and used all three labels.
C6_Witness ==
    /\ pc = "done"
    /\ binning = "qcut"
    /\ {Rank(df.cnt_cluster[i]) : i \in DOMAIN df.rows} = {1, 2, 3}

\* At least 90% of the rows of the frame share one count.
Dominated(rows) ==
    \E v \in Range(Cnt(rows)) :
        10 * Cardinality({i \in DOMAIN rows : rows[i].cnt = v}) >= 9 * Len(rows)

\* C7: when at least 90% of the rows of the filtered view share one count,
\* quantile binning fails, the failure is caught, and the equal-width
\* fallback labels every row; no exception reaches the user.
C7_FallbackOnDominatedView ==
    (pc \in PastCluster /\ Dominated(df.rows)) =>
        /\ binning = "cut"
        /\ fault = ""
        /\ pc # "crashed"
        /\ DOMAIN df.cnt_cluster = DOMAIN df.rows
        /\ \A i \in DOMAIN df.rows : Rank(df.cnt_cluster[i]) \in 1..3

\* Ten rows, nine of one count and one of another, labelled by the fallback.
C7_Witness ==
    /\ pc = "done"
    /\ Len(df.rows) = 10
    /\ Cardinality(Range(Cnt(df.rows))) = 2
    /\ Dominated(df.rows)
    /\ binning = "cut"
    /\ {Rank(df.cnt_cluster[i]) : i \in DOMAIN df.rows} = {1, 3}

SeasonTable(c) == CASE c = 1 -> "Spring" [] c = 2 -> "Summer" [] c = 3 -> "Fall"
                    [] c = 4 -> "Winter" [] OTHER -> NaN

WeatherTable(c) == CASE c = 1 -> "Clear" [] c = 2 -> "Mist/Cloudy"
                     [] c = 3 -> "Light Rain/Snow" [] c = 4 -> "Heavy Rain/Snow"
                     [] OTHER -> NaN

\* C8: the loader maps every season and weather code in 1..4 to the entry of
\* the fixed table, and every other code to the one missing value NaN,
\* without raising.
C8_CategoryMapping ==
    /\ (fileExists /\ served # "none") => (served \in {"body", "cache"} /\ cache.loaded)
    /\ cache.loaded =>
          /\ Len(cache.rows) = Len(fileRows)
          /\ \A i \in DOMAIN fileRows :
                /\ cache.rows[i].season = SeasonTable(fileRows[i].season)
                /\ cache.rows[i].weathersit = WeatherTable(fileRows[i].weathersit)

\* A row with a season code outside 1..4 and a weather code inside has been loaded.
C8_Witness ==
    /\ cache.loaded
    /\ fileRows[1].season = 5 /\ cache.rows[1].season = NaN
    /\ fileRows[1].weathersit = 3 /\ cache.rows[1].weathersit = "Light Rain/Snow"

\* C9: the count shown equals the number of rows of the filtered view, and
\* on a non-empty view max >= mean >= min, for the mean itself and for the
\* rounded mean that is displayed.
C9_AggregateBounds ==
    metrics.shown =>
        /\ metrics.count = Len(df.rows)
        /\ df.rows # <<>> =>
              /\ ~metrics.mean.nan /\ ~metrics.max.nan /\ ~metrics.min.nan
              /\ metrics.max.v * metrics.mean.den >= metrics.mean.num
              /\ metrics.mean.num >= metrics.min.v * metrics.mean.den
              /\ metrics.max.v >= metrics.mean_shown
              /\ metrics.mean_shown >= metrics.min.v

\* The mean lies strictly between the minimum and the maximum.
C9_Witness ==
    /\ metrics.shown
    /\ Len(df.rows) >= 3
    /\ metrics.max.v * metrics.mean.den > metrics.mean.num
    /\ metrics.mean.num > metrics.min.v * metrics.mean.den

\* C10: in every run the labels are those the binning gives the counts of
\* the rows of the master table that pass the current selection, whatever was
\* selected in earlier runs; the cut-points are those of that view, so when
\* its counts differ the smallest is Rendah and the largest is Tinggi.
C10_LabelsFromCurrentView ==
    df.has_cluster =>
        LET x == Cnt(SelectRows(cache.rows, [i \in DOMAIN cache.rows |-> Wanted(cache.rows[i])], 1))
        IN  /\ df.cnt_cluster = ClusterOutcome(x).labels
            /\ binning = ClusterOutcome(x).binning
            /\ \A i \in DOMAIN x :
                  /\ (x[i] = SeqMin(x) /\ SeqMin(x) < SeqMax(x)) => df.cnt_cluster[i] = "Rendah"
                  /\ (x[i] = SeqMax(x) /\ SeqMin(x) < SeqMax(x)) => df.cnt_cluster[i] = "Tinggi"

\* A later run whose selection keeps one row of a two-row table with two
\* different counts: the row is labelled within its own view.
C10_Witness ==
    /\ served = "cache"
    /\ pc = "done"
    /\ Len(cache.rows) = 2
    /\ cache.rows[1].cnt # cache.rows[2].cnt
    /\ Len(df.rows) = 1
    /\ df.cnt_cluster = <<"Sedang">>

====
